---- MODULE Spec2Model ----
(***************************************************************************)
(* State-machine model of OpenICC::core::ImuCameraCalibrator               *)
(* (src/unnamed/part_000): InitSpline, InitializeGravity, Optimize,        *)
(* ToTheiaReconDataset and ClearSpline.                                    *)
(*                                                                         *)
(* Units.  The code keeps camera timestamps as double seconds, telemetry   *)
(* timestamps as milliseconds and trajectory times as int64 nanoseconds.   *)
(* The model keeps every time as an integer number of milliseconds and     *)
(* converts explicitly where the code converts: ToNs is "* 1e9" of a       *)
(* seconds value, TruncToSeconds is the int64_t conversion of line 300.    *)
(* TLC's integers are 32 bits wide, so the int64 nanosecond values are     *)
(* held in thousands of nanoseconds; every time of the model is a whole    *)
(* number of milliseconds, so no quotient or comparison differs.           *)
(* Vectors are integer triples in units of 0.01 (so 9.81 is 981);          *)
(* rotations are 3x3 integer matrices (signed permutation matrices).       *)
(***************************************************************************)
EXTENDS Integers, Sequences, FiniteSets, TLC

----------------------------------------------------------------------------
(* Program constants *)

\* spline order, template argument of the trajectory and addend of lines 99-100;
\* declared in imu_camera_calibrator.h, and used below by name only
SPLINE_N == 6
\* "* 1e9" of a seconds value (lines 61-64, 78, 125, 285): per millisecond,
\* in thousands of nanoseconds
KiloNsPerMs == 1000
\* "* 1e-3" of a millisecond telemetry timestamp (lines 118, 133, 301)
MsPerSec == 1000
\* the tolerance "1 / 30." of line 302, as its denominator
GravityTolDen == 30

(* Bounds of the model *)

\* views in a reconstruction handed to InitSpline
MaxFrames == 2
\* samples in an accelerometer stream
MaxSamples == 2
\* samples in a gyroscope stream
MaxGyro == 1
\* InitSpline calls in a lifetime
MaxRuns == 2
\* Optimize calls between two ClearSpline calls
MaxSolves == 2

----------------------------------------------------------------------------
(* Linear algebra on integer triples and 3x3 matrices (Eigen / Sophus) *)

Zero3 == <<0, 0, 0>>

VecAdd(a, b) == <<a[1] + b[1], a[2] + b[2], a[3] + b[3]>>

VecNeg(a) == <<-a[1], -a[2], -a[3]>>

Dot(a, b) == a[1] * b[1] + a[2] * b[2] + a[3] * b[3]

MatVec(R, v) == <<Dot(R[1], v), Dot(R[2], v), Dot(R[3], v)>>

Transpose(R) == [i \in 1..3 |-> [j \in 1..3 |-> R[j][i]]]

MatMul(A, B) == [i \in 1..3 |-> [j \in 1..3 |-> Dot(A[i], Transpose(B)[j])]]

I3 == <<<<1, 0, 0>>, <<0, 1, 0>>, <<0, 0, 1>>>>

\* quarter turn about z
Rz90 == <<<<0, -1, 0>>, <<1, 0, 0>>, <<0, 0, 1>>>>

\* quarter turn about x
Rx90 == <<<<1, 0, 0>>, <<0, 0, -1>>, <<0, 1, 0>>>>

\* Sophus::SE3<double>(R, p)
SE3(R, p) == [R |-> R, p |-> p]

\* Sophus::SE3d::operator*
SE3Mul(A, B) == SE3(MatMul(A.R, B.R), VecAdd(MatVec(A.R, B.p), A.p))

\* Sophus::SE3d::inverse
SE3Inverse(A) == SE3(Transpose(A.R), VecNeg(MatVec(Transpose(A.R), A.p)))

SE3Identity == SE3(I3, Zero3)

----------------------------------------------------------------------------
(* Sequences, maps and sorting *)

Abs(x) == IF x < 0 THEN -x ELSE x

Range(s) == {s[i] : i \in 1..Len(s)}

SetMin(S) == CHOOSE x \in S : \A y \in S : x <= y

SetMax(S) == CHOOSE x \in S : \A y \in S : y <= x

SeqsUpTo(S, n) == UNION {[1..k -> S] : k \in 0..n}

\* position of the first smallest element of a non-empty sequence
FirstMinIndex(s) ==
    CHOOSE i \in 1..Len(s) :
        /\ \A j \in 1..Len(s) : s[i] <= s[j]
        /\ \A j \in 1..(i - 1) : s[j] > s[i]

RemoveAt(s, i) == [j \in 1..(Len(s) - 1) |-> IF j < i THEN s[j] ELSE s[j + 1]]

\* std::sort of a vector of doubles, ascending
RECURSIVE StdSort(_)
StdSort(s) ==
    IF s = <<>> THEN <<>>
    ELSE LET i == FirstMinIndex(s)
         IN <<s[i]>> \o StdSort(RemoveAt(s, i))

\* the elements of a set of integers, ascending (iteration order of std::map keys)
RECURSIVE SetToSortedSeq(_)
SetToSortedSeq(S) ==
    IF S = {} THEN <<>>
    ELSE LET m == SetMin(S) IN <<m>> \o SetToSortedSeq(S \ {m})

EmptyMap == [k \in {} |-> 0]

\* m[k] = v of a std::map: insert or overwrite
MapPut(m, k, v) == [x \in DOMAIN m \cup {k} |-> IF x = k THEN v ELSE m[x]]

----------------------------------------------------------------------------
(* Time conversions *)

\* int64_t x_ns = seconds * 1e9
ToNs(ms) == ms * KiloNsPerMs

\* const int64_t accl_t = timestamp_ms * 1e-3: the conversion to int64_t drops
\* the fraction of the second
TruncToSeconds(ms) == ms \div MsPerSec

\* TimeCamId(timestamp * 1e9, 0)
TimeCamId(ms) == <<ToNs(ms), 0>>

----------------------------------------------------------------------------
(* The calibrator's members (imu_camera_calibrator.h) and its collaborators *)

VARIABLES
    calibrate_cam_line_delay_,  \* configuration flag, fixed for a lifetime
    spline_weight_data_,        \* [dt_so3, dt_r3 (ms), cam_fps]
    T_i_c_init_,                \* SE3
    cam_timestamps_,            \* std::vector<double>, here in ms
    inital_cam_line_delay_s_,   \* [num, den]: num / den seconds
    t0_s_, tend_s_,             \* the window, in ms
    nr_knots_so3_, nr_knots_r3_,
    calib_corners_,             \* std::map<TimeCamId, CalibCornerData>
    calib_init_poses_,          \* std::map<TimeCamId, CalibInitPoseData>
    spline_init_poses_,         \* std::map<TimeCamId, CalibInitPoseData>
    accl_measurements,          \* std::map<double, Vector3d>, keys in ms
    gyro_measurements,          \* std::map<double, Vector3d>, keys in ms
    gravity_initialized_,
    gravity_init_,
    trajectory_,                \* what the trajectory object has been handed
    crashed,                    \* the process died in an out-of-bounds read
    runs,                       \* InitSpline calls so far
    lastOp,                     \* the last operation called, with its arguments
    prevOp                      \* the name of the operation called before it

vars ==
    <<calibrate_cam_line_delay_, spline_weight_data_, T_i_c_init_,
      cam_timestamps_, inital_cam_line_delay_s_, t0_s_, tend_s_,
      nr_knots_so3_, nr_knots_r3_, calib_corners_, calib_init_poses_,
      spline_init_poses_, accl_measurements, gyro_measurements,
      gravity_initialized_, gravity_init_, trajectory_,
      crashed, runs, lastOp, prevOp>>

ZeroDelay == [num |-> 0, den |-> 1]

\* the trajectory before anything was handed to it
EmptyTrajectory ==
    [rs_line_delay |-> ZeroDelay,
     dt_so3_ns |-> 0, dt_r3_ns |-> 0, start_t_ns |-> 0,
     calib |-> <<>>, T_i_c |-> SE3Identity,
     init_poses |-> EmptyMap, nr_knots_so3 |-> 0, nr_knots_r3 |-> 0,
     corners |-> <<>>, accel |-> <<>>, gyro |-> <<>>,
     g |-> Zero3, optimize_calls |-> 0]

\* a calibrator as constructed: empty containers, gravity not initialized
Init ==
    /\ calibrate_cam_line_delay_ \in BOOLEAN
    /\ spline_weight_data_ = [dt_so3 |-> 0, dt_r3 |-> 0, cam_fps |-> 0]
    /\ T_i_c_init_ = SE3Identity
    /\ cam_timestamps_ = <<>>
    /\ inital_cam_line_delay_s_ = ZeroDelay
    /\ t0_s_ = 0
    /\ tend_s_ = 0
    /\ nr_knots_so3_ = 0
    /\ nr_knots_r3_ = 0
    /\ calib_corners_ = EmptyMap
    /\ calib_init_poses_ = EmptyMap
    /\ spline_init_poses_ = EmptyMap
    /\ accl_measurements = EmptyMap
    /\ gyro_measurements = EmptyMap
    /\ gravity_initialized_ = FALSE
    /\ gravity_init_ = Zero3
    /\ trajectory_ = EmptyTrajectory
    /\ crashed = FALSE
    /\ runs = 0
    /\ lastOp = [op |-> "construct"]
    /\ prevOp = "none"

----------------------------------------------------------------------------
(* InitSpline, part by part (lines 23-145) *)

\* lines 37-39: the timestamp of every view, in ViewIds order
ViewTimestamps(calib_dataset) ==
    [i \in 1..Len(calib_dataset) |-> calib_dataset[i].timestamp]

\* lines 37-40: push_back onto the member, then std::sort
CamTimestampsAfter(old, calib_dataset) ==
    StdSort(old \o ViewTimestamps(calib_dataset))

\* the guess of line 44-46 whatever the configuration flag
InitialLineDelayAlways(calibrate, spline_weight_data, image_height) ==
    [num |-> 1, den |-> spline_weight_data.cam_fps * image_height]

\* lines 43-50: (1 / cam_fps) * (1 / ImageHeight of the first view), or 0.0
InitialLineDelay(calibrate, spline_weight_data, image_height) ==
    IF calibrate
    THEN [num |-> 1, den |-> spline_weight_data.cam_fps * image_height]
    ELSE ZeroDelay

\* std::minmax_element(...).first: the first smallest element
MinElementIndex(s) == FirstMinIndex(s)

\* std::minmax_element(...).second: the last largest element
MaxElementIndex(s) ==
    CHOOSE i \in 1..Len(s) :
        /\ \A j \in 1..Len(s) : s[j] <= s[i]
        /\ \A j \in (i + 1)..Len(s) : s[j] < s[i]

\* both members read through the first iterator
WindowFirstOnly(cam, stale) ==
    IF cam = <<>>
    THEN [t0 |-> stale, tend |-> stale]
    ELSE [t0 |-> cam[FirstMinIndex(cam)], tend |-> cam[FirstMinIndex(cam)]]

\* lines 57-60.  On an empty vector both iterators are end() = begin(), so both
\* members are read from cam_timestamps_[0], one past the (empty) storage: the
\* same out-of-bounds value, stale, for both.
Window(cam, stale) ==
    IF cam = <<>>
    THEN [t0 |-> stale, tend |-> stale]
    ELSE [t0 |-> cam[MinElementIndex(cam)], tend |-> cam[MaxElementIndex(cam)]]

\* the window closed at t_end: ">" for ">="
InWindowClosed(t, w) == ~(t > w.tend \/ t < w.t0)

\* line 76: "if (timestamp >= tend_s_ || timestamp < t0_s_) continue;"
InWindow(t, w) == ~(t >= w.tend \/ t < w.t0)

\* the quotient rounded up
KnotCountCeil(start_t_ns, end_t_ns, dt_ns) ==
    (end_t_ns - start_t_ns + dt_ns - 1) \div dt_ns + SPLINE_N

\* a knot count that ignores the window
KnotCountNoWindow(start_t_ns, end_t_ns, dt_ns) == SPLINE_N

\* lines 99-100: int64 division, then + SPLINE_N
KnotCount(start_t_ns, end_t_ns, dt_ns) ==
    (end_t_ns - start_t_ns) \div dt_ns + SPLINE_N

\* lines 79-84: the features of a view, by track
CornerData(view) ==
    [corners |-> [t \in 1..Len(view.features) |-> view.features[t].pixel],
     track_ids |-> [t \in 1..Len(view.features) |-> view.features[t].track]]

\* lines 86-89: SE3(orientation^T, position)
InitPose(view) == SE3(Transpose(view.orientation), view.position)

\* lines 73-97: the views inside the window go into the three maps
RECURSIVE IngestViews(_, _, _, _, _)
IngestViews(stores, calib_dataset, i, w, T_i_c_init) ==
    IF i > Len(calib_dataset) THEN stores
    ELSE LET view == calib_dataset[i]
             key == TimeCamId(view.timestamp)
             T_a_c == InitPose(view)
             next ==
                 IF ~InWindow(view.timestamp, w) THEN stores
                 ELSE [corners |-> MapPut(stores.corners, key, CornerData(view)),
                       init |-> MapPut(stores.init, key, T_a_c),
                       spline |-> MapPut(stores.spline, key,
                                         SE3Mul(T_a_c, SE3Inverse(T_i_c_init)))]
         IN IngestViews(next, calib_dataset, i + 1, w, T_i_c_init)

\* lines 108-114: every stored corner set whose frame id lies in
\* [start_t_ns, end_t_ns) is handed to the trajectory, in key order
RECURSIVE CornersHanded(_, _, _, _)
CornersHanded(corners, ids, start_t_ns, end_t_ns) ==
    IF ids = <<>> THEN <<>>
    ELSE LET id == Head(ids)
             rest == CornersHanded(corners, Tail(ids), start_t_ns, end_t_ns)
         IN IF id >= start_t_ns /\ id < end_t_ns
            THEN <<[frame_id |-> id, data |-> corners[<<id, 0>>]]>> \o rest
            ELSE rest

\* lines 116-129 (accelerometer) and 131-144 (gyroscope): the samples whose
\* corrected time lies in the window are handed to the trajectory and stored
RECURSIVE IngestInertial(_, _, _, _, _, _)
IngestInertial(acc, stream, i, time_offset, bias, w) ==
    IF i > Len(stream) THEN acc
    ELSE LET t == stream[i].timestamp_ms + time_offset
             unbiased == VecAdd(stream[i].measurement, bias)
             next ==
                 IF t < w.t0 \/ t >= w.tend THEN acc
                 ELSE [store |-> MapPut(acc.store, t, unbiased),
                       handed |-> Append(acc.handed,
                                         [t_ns |-> ToNs(t), value |-> unbiased])]
         IN IngestInertial(next, stream, i + 1, time_offset, bias, w)

\* What the two out-of-bounds reads of InitSpline can produce when the
\* reconstruction has no views: view_ids[0] (line 46, only with line-delay
\* calibration on) and cam_timestamps_[0] (lines 59-60, only when the member
\* vector is empty too).  Either the process dies, or the reads return whatever
\* lies there.  Without such a read there is one outcome.
NoUB == [crash |-> FALSE, stale_time |-> 0, stale_height |-> 1]

ReadsFirstView(calibrate, calib_dataset) == calibrate /\ calib_dataset = <<>>

ReadsFirstTimestamp(old_cam, calib_dataset) ==
    old_cam = <<>> /\ calib_dataset = <<>>

UBOutcomes(calibrate, old_cam, calib_dataset, StaleTimes, StaleHeights) ==
    IF ~ReadsFirstView(calibrate, calib_dataset)
       /\ ~ReadsFirstTimestamp(old_cam, calib_dataset)
    THEN {NoUB}
    ELSE {[crash |-> TRUE, stale_time |-> 0, stale_height |-> 1]} \cup
         {[crash |-> FALSE, stale_time |-> t, stale_height |-> h] :
            t \in (IF ReadsFirstTimestamp(old_cam, calib_dataset)
                   THEN StaleTimes ELSE {0}),
            h \in (IF ReadsFirstView(calibrate, calib_dataset)
                   THEN StaleHeights ELSE {1})}

\* the record of an InitSpline call: its arguments, the outcome of its
\* out-of-bounds reads, and the measurements it handed to the trajectory
\* (addRSCornersMeasurement, addAccelMeasurement, addGyroMeasurement)
InitSplineCall(calib_dataset, T_i_c_init, spline_weight_data, time_offset_imu_to_cam, gyro_bias, accl_bias, telemetry_data, ub, corners, accel, gyro) ==
    [op |-> "InitSpline",
     calib_dataset |-> calib_dataset,
     T_i_c_init |-> T_i_c_init,
     spline_weight_data |-> spline_weight_data,
     time_offset_imu_to_cam |-> time_offset_imu_to_cam,
     gyro_bias |-> gyro_bias,
     accl_bias |-> accl_bias,
     telemetry_data |-> telemetry_data,
     ub |-> ub,
     handed |-> [corners |-> corners, accel |-> accel, gyro |-> gyro]]

\* the members after the call (the assignments of lines 31-143 and what the
\* trajectory was handed), given what the steps of the call computed
InitSplineAssign(call, cam, delay, w, stores, so3, r3, handed, accl, gyro) ==
    /\ lastOp' = [call EXCEPT !.handed = [corners |-> handed,
                                          accel |-> accl.handed,
                                          gyro |-> gyro.handed]]
    /\ spline_weight_data_' = call.spline_weight_data
    /\ T_i_c_init_' = call.T_i_c_init
    /\ cam_timestamps_' = cam
    /\ inital_cam_line_delay_s_' = delay
    /\ t0_s_' = w.t0
    /\ tend_s_' = w.tend
    /\ calib_corners_' = stores.corners
    /\ calib_init_poses_' = stores.init
    /\ spline_init_poses_' = stores.spline
    /\ nr_knots_so3_' = so3
    /\ nr_knots_r3_' = r3
    /\ accl_measurements' = accl.store
    /\ gyro_measurements' = gyro.store
    /\ trajectory_' =
         [trajectory_ EXCEPT
            !.rs_line_delay = delay,
            !.dt_so3_ns = ToNs(call.spline_weight_data.dt_so3),
            !.dt_r3_ns = ToNs(call.spline_weight_data.dt_r3),
            !.start_t_ns = ToNs(w.t0),
            !.calib = call.calib_dataset,
            !.T_i_c = call.T_i_c_init,
            !.init_poses = stores.spline,
            !.nr_knots_so3 = so3,
            !.nr_knots_r3 = r3,
            !.corners = @ \o handed,
            !.accel = @ \o accl.handed,
            !.gyro = @ \o gyro.handed]
    /\ runs' = runs + 1
    /\ UNCHANGED <<calibrate_cam_line_delay_, gravity_initialized_,
                   gravity_init_, crashed>>

\* lines 99-144, given the window and the filled maps: the knot counts, the
\* corners handed over in key order, the accelerometer and gyroscope samples
InitSplineMeasure(call, cam, delay, w, stores) ==
    InitSplineAssign(
        call, cam, delay, w, stores,
        KnotCount(ToNs(w.t0), ToNs(w.tend), ToNs(call.spline_weight_data.dt_so3)),
        KnotCount(ToNs(w.t0), ToNs(w.tend), ToNs(call.spline_weight_data.dt_r3)),
        CornersHanded(stores.corners,
                      SetToSortedSeq({k[1] : k \in DOMAIN stores.corners}),
                      ToNs(w.t0), ToNs(w.tend)),
        IngestInertial([store |-> accl_measurements, handed |-> <<>>],
                       call.telemetry_data.accelerometer, 1,
                       call.time_offset_imu_to_cam, call.accl_bias, w),
        IngestInertial([store |-> gyro_measurements, handed |-> <<>>],
                       call.telemetry_data.gyroscope, 1,
                       call.time_offset_imu_to_cam, call.gyro_bias, w))

\* lines 73-97, given the window: the views inside it go into the maps
InitSplineViews(call, cam, delay, w) ==
    InitSplineMeasure(
        call, cam, delay, w,
        IngestViews([corners |-> calib_corners_, init |-> calib_init_poses_,
                     spline |-> spline_init_poses_],
                    call.calib_dataset, 1, w, call.T_i_c_init))

\* lines 43-60, given the sorted timestamps: the line delay and the window
InitSplineWindow(call, cam) ==
    InitSplineViews(
        call, cam,
        InitialLineDelay(calibrate_cam_line_delay_, call.spline_weight_data,
                         IF call.calib_dataset = <<>> THEN call.ub.stale_height
                         ELSE call.calib_dataset[1].image_height),
        Window(cam, call.ub.stale_time))

\* lines 23-145.  Each step is an operator of what the steps before it
\* computed, so that the model checker computes every intermediate value once.
InitSpline(calib_dataset, T_i_c_init, spline_weight_data, time_offset_imu_to_cam, gyro_bias, accl_bias, telemetry_data, ub) ==
    /\ ~crashed
    /\ runs < MaxRuns
    /\ prevOp' = lastOp.op
    /\ IF ub.crash
       THEN /\ crashed' = TRUE
            /\ lastOp' = InitSplineCall(calib_dataset, T_i_c_init,
                                        spline_weight_data,
                                        time_offset_imu_to_cam, gyro_bias,
                                        accl_bias, telemetry_data, ub,
                                        <<>>, <<>>, <<>>)
            /\ UNCHANGED <<calibrate_cam_line_delay_, spline_weight_data_,
                           T_i_c_init_, cam_timestamps_,
                           inital_cam_line_delay_s_, t0_s_, tend_s_,
                           nr_knots_so3_, nr_knots_r3_, calib_corners_,
                           calib_init_poses_, spline_init_poses_,
                           accl_measurements, gyro_measurements,
                           gravity_initialized_, gravity_init_, trajectory_,
                           runs>>
       ELSE InitSplineWindow(
                InitSplineCall(calib_dataset, T_i_c_init, spline_weight_data,
                               time_offset_imu_to_cam, gyro_bias, accl_bias,
                               telemetry_data, ub, <<>>, <<>>, <<>>),
                CamTimestampsAfter(cam_timestamps_, calib_dataset))

\* Trajectory::Clear (ceres_calib_spline_split.h): back to an empty trajectory
TrajectoryClear(trajectory) == EmptyTrajectory

\* ClearSpline without accl_measurements.clear()
ClearSplineKeepsAccl ==
    /\ ~crashed
    /\ prevOp' = lastOp.op
    /\ lastOp' = [op |-> "ClearSpline"]
    /\ cam_timestamps_' = <<>>
    /\ gyro_measurements' = EmptyMap
    /\ calib_corners_' = EmptyMap
    /\ calib_init_poses_' = EmptyMap
    /\ spline_init_poses_' = EmptyMap
    /\ trajectory_' = EmptyTrajectory
    /\ UNCHANGED <<calibrate_cam_line_delay_, spline_weight_data_,
                   T_i_c_init_, inital_cam_line_delay_s_, t0_s_, tend_s_,
                   nr_knots_so3_, nr_knots_r3_, accl_measurements,
                   gravity_initialized_, gravity_init_, crashed, runs>>

\* lines 339-347
ClearSpline ==
    /\ ~crashed
    /\ prevOp' = lastOp.op
    /\ lastOp' = [op |-> "ClearSpline"]
    /\ cam_timestamps_' = <<>>
    /\ gyro_measurements' = EmptyMap
    /\ accl_measurements' = EmptyMap
    /\ calib_corners_' = EmptyMap
    /\ calib_init_poses_' = EmptyMap
    /\ spline_init_poses_' = EmptyMap
    /\ trajectory_' = TrajectoryClear(trajectory_)
    /\ UNCHANGED <<calibrate_cam_line_delay_, spline_weight_data_,
                   T_i_c_init_, inital_cam_line_delay_s_, t0_s_, tend_s_,
                   nr_knots_so3_, nr_knots_r3_, gravity_initialized_,
                   gravity_init_, crashed, runs>>

----------------------------------------------------------------------------
(* InitializeGravity (lines 281-313) *)

\* lines 300-302: accl_t is the sample's time cut to whole seconds, compared
\* with the camera timestamp: |accl_t - cam| < 1 / 30.
GravityMatch(raw_ms, cam_ms) ==
    Abs(TruncToSeconds(raw_ms) * MsPerSec - cam_ms) * GravityTolDen < MsPerSec

\* the scan without its stop: every matching sample overwrites gravity
RECURSIVE ScanSamplesNoStop(_, _, _, _, _, _)
ScanSamplesNoStop(grav, stream, i, cam_ms, T_a_i, accl_bias) ==
    IF i > Len(stream) THEN grav
    ELSE LET ad == VecAdd(stream[i].measurement, accl_bias)
             next ==
                 IF Abs(TruncToSeconds(stream[i].timestamp_ms) * MsPerSec
                          - cam_ms) * GravityTolDen < MsPerSec
                 THEN [initialized |-> TRUE, g |-> MatVec(T_a_i.R, ad)]
                 ELSE grav
         IN ScanSamplesNoStop(next, stream, i + 1, cam_ms, T_a_i, accl_bias)

\* lines 294-308: the samples in stream order, until gravity is initialized
RECURSIVE ScanSamples(_, _, _, _, _, _)
ScanSamples(grav, stream, i, cam_ms, T_a_i, accl_bias) ==
    IF i > Len(stream) \/ grav.initialized THEN grav
    ELSE LET ad == VecAdd(stream[i].measurement, accl_bias)
             next ==
                 IF GravityMatch(stream[i].timestamp_ms, cam_ms)
                 THEN [initialized |-> TRUE, g |-> MatVec(T_a_i.R, ad)]
                 ELSE grav
         IN ScanSamples(next, stream, i + 1, cam_ms, T_a_i, accl_bias)

\* lines 284-311: the camera timestamps in vector order; one with a registered
\* initial pose scans the samples unless gravity is initialized already
RECURSIVE GravitySweep(_, _, _, _, _, _, _)
GravitySweep(grav, cam, j, init_poses, T_i_c_init, stream, accl_bias) ==
    IF j > Len(cam) THEN grav
    ELSE LET tcid == TimeCamId(cam[j])
             next ==
                 IF tcid \in DOMAIN init_poses /\ ~grav.initialized
                 THEN ScanSamples(grav, stream, 1, cam[j],
                                  SE3Mul(init_poses[tcid],
                                         SE3Inverse(T_i_c_init)),
                                  accl_bias)
                 ELSE grav
         IN GravitySweep(next, cam, j + 1, init_poses, T_i_c_init, stream,
                         accl_bias)

\* lines 303-304 and 312, given the outcome of the sweep
InitializeGravityAssign(telemetry_data, accl_bias, grav) ==
    /\ ~crashed
    /\ prevOp' = lastOp.op
    /\ lastOp' = [op |-> "InitializeGravity",
                  telemetry_data |-> telemetry_data,
                  accl_bias |-> accl_bias,
                  was_initialized |-> gravity_initialized_,
                  was_gravity |-> gravity_init_]
    /\ gravity_initialized_' = grav.initialized
    /\ gravity_init_' = grav.g
    /\ trajectory_' = [trajectory_ EXCEPT !.g = grav.g]
    /\ UNCHANGED <<calibrate_cam_line_delay_, spline_weight_data_,
                   T_i_c_init_, cam_timestamps_, inital_cam_line_delay_s_,
                   t0_s_, tend_s_, nr_knots_so3_, nr_knots_r3_,
                   calib_corners_, calib_init_poses_, spline_init_poses_,
                   accl_measurements, gyro_measurements, crashed, runs>>

\* lines 281-313
InitializeGravity(telemetry_data, accl_bias) ==
    InitializeGravityAssign(
        telemetry_data, accl_bias,
        GravitySweep([initialized |-> gravity_initialized_, g |-> gravity_init_],
                     cam_timestamps_, 1, calib_init_poses_, T_i_c_init_,
                     telemetry_data.accelerometer, accl_bias))

----------------------------------------------------------------------------
(* Optimize (lines 315-321) *)

\* the two diagnostics with the rolling-shutter one first
DiagnosticsRSFirst(corners) ==
    <<[metric |-> "meanRSReprojection", over |-> DOMAIN corners],
      [metric |-> "meanReprojection", over |-> DOMAIN corners]>>

\* lines 317-319: the two diagnostics, each over the whole corner map
Diagnostics(corners) ==
    <<[metric |-> "meanReprojection", over |-> DOMAIN corners],
      [metric |-> "meanRSReprojection", over |-> DOMAIN corners]>>

\* lines 315-321: the solve is run whatever the state, then the diagnostics
Optimize(iterations) ==
    /\ ~crashed
    /\ trajectory_.optimize_calls < MaxSolves
    /\ prevOp' = lastOp.op
    /\ lastOp' = [op |-> "Optimize",
                  iterations |-> iterations,
                  returned |-> Diagnostics(calib_corners_)]
    /\ trajectory_' = [trajectory_ EXCEPT !.optimize_calls = @ + 1]
    /\ UNCHANGED <<calibrate_cam_line_delay_, spline_weight_data_,
                   T_i_c_init_, cam_timestamps_, inital_cam_line_delay_s_,
                   t0_s_, tend_s_, nr_knots_so3_, nr_knots_r3_,
                   calib_corners_, calib_init_poses_, spline_init_poses_,
                   accl_measurements, gyro_measurements,
                   gravity_initialized_, gravity_init_, crashed, runs>>

----------------------------------------------------------------------------
(* ToTheiaReconDataset (lines 323-337) *)

\* lines 326-335: the view added for one camera timestamp
ExportedView(cam_ms) ==
    [name |-> ToNs(cam_ms), timestamp |-> ToNs(cam_ms),
     estimated |-> TRUE, pose_at |-> ToNs(cam_ms)]

\* the export of the frames with stored corners only
ToTheiaStoredOnly(output_recon) ==
    /\ ~crashed
    /\ prevOp' = lastOp.op
    /\ lastOp' =
         [op |-> "ToTheiaReconDataset",
          given |-> output_recon,
          output_recon |->
              output_recon \o
              SelectSeq([i \in 1..Len(cam_timestamps_) |->
                            ExportedView(cam_timestamps_[i])],
                        LAMBDA v : <<v.timestamp, 0>> \in DOMAIN calib_corners_)]
    /\ UNCHANGED <<calibrate_cam_line_delay_, spline_weight_data_,
                   T_i_c_init_, cam_timestamps_, inital_cam_line_delay_s_,
                   t0_s_, tend_s_, nr_knots_so3_, nr_knots_r3_,
                   calib_corners_, calib_init_poses_, spline_init_poses_,
                   accl_measurements, gyro_measurements,
                   gravity_initialized_, gravity_init_, trajectory_,
                   crashed, runs>>

\* lines 323-337: output_recon is the caller's container, given and handed
\* back with the call; nothing of the calibrator changes
ToTheiaReconDataset(output_recon) ==
    /\ ~crashed
    /\ prevOp' = lastOp.op
    /\ lastOp' =
         [op |-> "ToTheiaReconDataset",
          given |-> output_recon,
          output_recon |->
              output_recon \o
              [i \in 1..Len(cam_timestamps_) |->
                  ExportedView(cam_timestamps_[i])]]
    /\ UNCHANGED <<calibrate_cam_line_delay_, spline_weight_data_,
                   T_i_c_init_, cam_timestamps_, inital_cam_line_delay_s_,
                   t0_s_, tend_s_, nr_knots_so3_, nr_knots_r3_,
                   calib_corners_, calib_init_poses_, spline_init_poses_,
                   accl_measurements, gyro_measurements,
                   gravity_initialized_, gravity_init_, trajectory_,
                   crashed, runs>>

----------------------------------------------------------------------------
(* Inputs *)

\* 9.81 m/s^2 along z, and along x
GravityZ == <<0, 0, 981>>

GravityX == <<981, 0, 0>>

OneFeature == <<[track |-> 1, pixel |-> <<320, 240>>]>>

ViewsOf(Times, Orientations) ==
    {[timestamp |-> t, orientation |-> R, position |-> Zero3,
      image_height |-> 480, features |-> OneFeature] :
        t \in Times, R \in Orientations}

SamplesOf(Times, Values) ==
    {[timestamp_ms |-> t, measurement |-> v] : t \in Times, v \in Values}

TelemetryOf(Accl, Gyro) ==
    {[accelerometer |-> a, gyroscope |-> g] :
        a \in SeqsUpTo(Accl, MaxSamples), g \in SeqsUpTo(Gyro, MaxGyro)}

StaleTimes == {0, 10000}

StaleHeights == {480}

----------------------------------------------------------------------------
(* Spec: every operation, in any order *)

Datasets == SeqsUpTo(ViewsOf({10000, 10500}, {I3}), MaxFrames)

\* one sample at the first camera timestamp
SampleAtStart == <<[timestamp_ms |-> 10000, measurement |-> GravityZ]>>

SplineTelemetry == {[accelerometer |-> SampleAtStart, gyroscope |-> SampleAtStart]}

GravityTelemetry == {[accelerometer |-> SampleAtStart, gyroscope |-> <<>>]}

Weights == [dt_so3 |-> 100, dt_r3 |-> 200, cam_fps |-> 30]

Next ==
    \/ \E ds \in Datasets, td \in SplineTelemetry :
         \E ub \in UBOutcomes(calibrate_cam_line_delay_, cam_timestamps_, ds,
                              StaleTimes, StaleHeights) :
            InitSpline(ds, SE3Identity, Weights, 0, Zero3, Zero3, td, ub)
    \/ \E td \in GravityTelemetry : InitializeGravity(td, Zero3)
    \/ Optimize(10)
    \/ ToTheiaReconDataset(<<>>)
    \/ ClearSpline

Spec == Init /\ [][Next]_vars

----------------------------------------------------------------------------
(* SpecWindow: the calibrator driven as the state machine of the design has *)
(* it, InitSpline on an empty calibrator and ClearSpline before the next    *)
(* run, over views and samples at, inside and outside the window's ends.    *)

Empty == lastOp.op \in {"construct", "ClearSpline"}

WindowDatasets == SeqsUpTo(ViewsOf({10000, 10020, 10500}, {I3}), MaxFrames)

WindowAccl == SamplesOf({10000}, {GravityZ}) \cup SamplesOf({10020}, {GravityX})

WindowTelemetry == TelemetryOf(WindowAccl, SamplesOf({10020}, {GravityX}))

\* spacings that divide some of the window lengths 20, 480 and 500 ms and not
\* the others
WindowWeights == {[dt_so3 |-> 40, dt_r3 |-> 500, cam_fps |-> 30]}

WindowOffsets == {0, 20}

AcclBias == <<1, 2, 3>>

GyroBias == <<-1, 0, 1>>

NextWindow ==
    \/ /\ Empty
       /\ \E ds \in WindowDatasets, td \in WindowTelemetry,
             swd \in WindowWeights, off \in WindowOffsets :
            \E ub \in UBOutcomes(calibrate_cam_line_delay_, cam_timestamps_,
                                 ds, StaleTimes, StaleHeights) :
               InitSpline(ds, SE3Identity, swd, off, GyroBias, AcclBias, td, ub)
    \/ ClearSpline

SpecWindow == Init /\ [][NextWindow]_vars

----------------------------------------------------------------------------
(* SpecGravity: one run, InitSpline then any number of InitializeGravity    *)
(* calls, over posed views and samples near and far from them.  A dataset   *)
(* holds up to MaxFrames + 1 views: the view at t_end gets no pose.         *)

GravityViews ==
    ViewsOf({10000, 10500}, {I3}) \cup ViewsOf({10020}, {Rz90})

GravityDatasets == SeqsUpTo(GravityViews, MaxFrames + 1)

GravityExtrinsics == {SE3Identity, SE3(Rx90, <<1, 0, 0>>)}

GravityAccl == SamplesOf({10020}, {GravityZ}) \cup SamplesOf({10500}, {GravityX})

GravitySamples ==
    {[accelerometer |-> a, gyroscope |-> <<>>] :
        a \in SeqsUpTo(GravityAccl, MaxSamples)}

GravityBiases == {Zero3, <<0, 0, 19>>}

NoTelemetry == [accelerometer |-> <<>>, gyroscope |-> <<>>]

NextGravity ==
    \/ /\ Empty
       /\ \E ds \in GravityDatasets, T \in GravityExtrinsics :
            \E ub \in UBOutcomes(calibrate_cam_line_delay_, cam_timestamps_,
                                 ds, StaleTimes, StaleHeights) :
               InitSpline(ds, T, Weights, 0, Zero3, Zero3, NoTelemetry, ub)
    \/ \E td \in GravitySamples, b \in GravityBiases :
         InitializeGravity(td, b)

SpecGravity == Init /\ [][NextGravity]_vars

----------------------------------------------------------------------------
(* SpecDelay: runs over frame rates and image heights, each run InitSpline  *)
(* on an empty calibrator, any number of Optimize calls, then ClearSpline.  *)

DelayHeights == {480, 1080}

DelayViews ==
    {[v EXCEPT !.image_height = h] :
        v \in ViewsOf({10000, 10500}, {I3}), h \in DelayHeights}

DelayDatasets == SeqsUpTo(DelayViews, MaxFrames)

DelayWeights ==
    {[dt_so3 |-> 100, dt_r3 |-> 200, cam_fps |-> fps] : fps \in {30, 60}}

NextDelay ==
    \/ /\ Empty
       /\ \E ds \in DelayDatasets, swd \in DelayWeights :
            \E ub \in UBOutcomes(calibrate_cam_line_delay_, cam_timestamps_,
                                 ds, StaleTimes, StaleHeights) :
               InitSpline(ds, SE3Identity, swd, 0, Zero3, Zero3, NoTelemetry, ub)
    \/ Optimize(10)
    \/ ClearSpline

SpecDelay == Init /\ [][NextDelay]_vars

----------------------------------------------------------------------------
(* SpecExport: runs of InitSpline on an empty calibrator, Optimize and the  *)
(* export into an empty container or one that holds a view already, then   *)
(* ClearSpline.                                                             *)

ExportDatasets == SeqsUpTo(ViewsOf({10000, 10020, 10500}, {I3}), MaxFrames)

\* a view the output container holds before the export
PriorView == [name |-> 1, timestamp |-> 1, estimated |-> FALSE, pose_at |-> 1]

OutputContainers == {<<>>, <<PriorView>>}

NextExport ==
    \/ /\ Empty
       /\ \E ds \in ExportDatasets :
            \E ub \in UBOutcomes(calibrate_cam_line_delay_, cam_timestamps_,
                                 ds, StaleTimes, StaleHeights) :
               InitSpline(ds, SE3Identity, Weights, 0, Zero3, Zero3,
                          NoTelemetry, ub)
    \/ Optimize(10)
    \/ \E out \in OutputContainers : ToTheiaReconDataset(out)
    \/ ClearSpline

SpecExport == Init /\ [][NextExport]_vars

----------------------------------------------------------------------------
(* SpecInertial: runs of InitSpline on an empty calibrator over inertial    *)
(* streams in which two samples with different values can have the same    *)
(* timestamp, in either order, then ClearSpline.                            *)

InertialDatasets == SeqsUpTo(ViewsOf({10000, 10500}, {I3}), MaxFrames)

InertialSamples ==
    SamplesOf({10020}, {GravityZ, GravityX}) \cup SamplesOf({10500}, {GravityZ})

InertialTelemetry ==
    {[accelerometer |-> a, gyroscope |-> g] :
        a \in SeqsUpTo(InertialSamples, MaxSamples),
        g \in SeqsUpTo(SamplesOf({10020}, {GravityZ, GravityX}), MaxSamples)}

NextInertial ==
    \/ /\ Empty
       /\ \E ds \in InertialDatasets, td \in InertialTelemetry :
            \E ub \in UBOutcomes(calibrate_cam_line_delay_, cam_timestamps_,
                                 ds, StaleTimes, StaleHeights) :
               InitSpline(ds, SE3Identity, Weights, 0, GyroBias, AcclBias,
                          td, ub)
    \/ ClearSpline

SpecInertial == Init /\ [][NextInertial]_vars

----------------------------------------------------------------------------
(* Claims *)

LastInitSpline == lastOp.op = "InitSpline" /\ ~crashed

\* the last operation ran on a new or cleared calibrator
WasEmpty == prevOp \in {"construct", "ClearSpline"}

\* the corrected time of an inertial sample of the last InitSpline call
Corrected(sample) == sample.timestamp_ms + lastOp.time_offset_imu_to_cam

HalfOpen(t) == t0_s_ <= t /\ t < tend_s_

HandedTimes(handed) == {handed[i].t_ns : i \in 1..Len(handed)}

InWindowNs(t_ns) == ToNs(t0_s_) <= t_ns /\ t_ns < ToNs(tend_s_)

\* C1: after InitSpline a view, an accelerometer sample or a gyroscope sample
\* of the call is stored, and handed to the trajectory, exactly when its
\* timestamp (for a sample: raw + time offset) satisfies t0 <= t < t_end;
\* every key of a store and every time handed over lies in the window, and on
\* a calibrator that was empty the keys are timestamps of the call's inputs,
\* unchanged: nothing outside the window is stored or moved into it.
C1_HalfOpenWindow ==
    LastInitSpline =>
        LET views == Range(lastOp.calib_dataset)
            accl == Range(lastOp.telemetry_data.accelerometer)
            gyro == Range(lastOp.telemetry_data.gyroscope)
            cornersHanded == {lastOp.handed.corners[i].frame_id :
                                 i \in 1..Len(lastOp.handed.corners)}
            acclHanded == HandedTimes(lastOp.handed.accel)
            gyroHanded == HandedTimes(lastOp.handed.gyro)
        IN /\ \A v \in views :
                /\ TimeCamId(v.timestamp) \in DOMAIN calib_corners_
                     <=> HalfOpen(v.timestamp)
                /\ TimeCamId(v.timestamp) \in DOMAIN calib_init_poses_
                     <=> HalfOpen(v.timestamp)
                /\ ToNs(v.timestamp) \in cornersHanded
                     <=> HalfOpen(v.timestamp)
           /\ \A a \in accl :
                /\ Corrected(a) \in DOMAIN accl_measurements
                     <=> HalfOpen(Corrected(a))
                /\ ToNs(Corrected(a)) \in acclHanded <=> HalfOpen(Corrected(a))
           /\ \A g \in gyro :
                /\ Corrected(g) \in DOMAIN gyro_measurements
                     <=> HalfOpen(Corrected(g))
                /\ ToNs(Corrected(g)) \in gyroHanded <=> HalfOpen(Corrected(g))
           /\ \A k \in DOMAIN calib_corners_ \cup DOMAIN calib_init_poses_ :
                InWindowNs(k[1])
           /\ \A t \in DOMAIN accl_measurements \cup DOMAIN gyro_measurements :
                HalfOpen(t)
           /\ \A t \in cornersHanded \cup acclHanded \cup gyroHanded :
                InWindowNs(t)
           /\ WasEmpty =>
                /\ DOMAIN calib_corners_
                     \subseteq {TimeCamId(v.timestamp) : v \in views}
                /\ DOMAIN accl_measurements
                     \subseteq {Corrected(a) : a \in accl}
                /\ DOMAIN gyro_measurements
                     \subseteq {Corrected(g) : g \in gyro}

\* a run whose window is not empty, with a view and an accelerometer sample at
\* t0 (stored), a view and an accelerometer sample at t_end (not stored) and a
\* gyroscope sample outside the window (not stored)
C1_Witness ==
    /\ LastInitSpline
    /\ t0_s_ < tend_s_
    /\ TimeCamId(t0_s_) \in DOMAIN calib_corners_
    /\ TimeCamId(tend_s_) \notin DOMAIN calib_corners_
    /\ t0_s_ \in DOMAIN accl_measurements
    /\ \E a \in Range(lastOp.telemetry_data.accelerometer) :
          Corrected(a) = tend_s_
    /\ tend_s_ \notin DOMAIN accl_measurements
    /\ \E g \in Range(lastOp.telemetry_data.gyroscope) : ~HalfOpen(Corrected(g))
    /\ gyro_measurements = EmptyMap

\* C7: after InitSpline, t0 is the smallest and t_end the largest camera
\* timestamp: of the calibrator's timestamp list, which on a new or cleared
\* calibrator is the set of the timestamps of the dataset's views.
C7_WindowIsMinMax ==
    (LastInitSpline /\ cam_timestamps_ # <<>>) =>
        /\ t0_s_ = SetMin(Range(cam_timestamps_))
        /\ tend_s_ = SetMax(Range(cam_timestamps_))
        /\ (WasEmpty /\ lastOp.calib_dataset # <<>>) =>
              /\ t0_s_ = SetMin(Range(ViewTimestamps(lastOp.calib_dataset)))
              /\ tend_s_ = SetMax(Range(ViewTimestamps(lastOp.calib_dataset)))

\* a dataset of two views, the later one first, on a cleared calibrator
C7_Witness ==
    /\ LastInitSpline
    /\ prevOp = "ClearSpline"
    /\ Len(lastOp.calib_dataset) = 2
    /\ lastOp.calib_dataset[1].timestamp > lastOp.calib_dataset[2].timestamp
    /\ t0_s_ = lastOp.calib_dataset[2].timestamp
    /\ tend_s_ = lastOp.calib_dataset[1].timestamp

CeilDiv(a, b) == (a + b - 1) \div b

\* C8 as claimed: each knot count is ceil((t_end - t0) / spacing) + spline order
C8_CeilKnots ==
    (LastInitSpline /\ lastOp.calib_dataset # <<>>) =>
        /\ nr_knots_so3_ =
             CeilDiv(tend_s_ - t0_s_, spline_weight_data_.dt_so3) + SPLINE_N
        /\ nr_knots_r3_ =
             CeilDiv(tend_s_ - t0_s_, spline_weight_data_.dt_r3) + SPLINE_N

\* C8, amended: each knot count is the integer quotient of the window length
\* by the spacing (both in int64 nanoseconds), rounded down, + spline order:
\* the claimed value when the spacing divides the window length, one less
\* when it does not.
C8_FloorKnots ==
    LastInitSpline =>
        LET length_ns == ToNs(tend_s_) - ToNs(t0_s_)
            Floor(dt) == length_ns \div ToNs(dt) + SPLINE_N
            Claimed(dt) == CeilDiv(tend_s_ - t0_s_, dt) + SPLINE_N
            Short(dt) == IF (tend_s_ - t0_s_) % dt = 0 THEN 0 ELSE 1
        IN /\ nr_knots_so3_ = Floor(spline_weight_data_.dt_so3)
           /\ nr_knots_r3_ = Floor(spline_weight_data_.dt_r3)
           /\ nr_knots_so3_ = Claimed(spline_weight_data_.dt_so3)
                                - Short(spline_weight_data_.dt_so3)
           /\ nr_knots_r3_ = Claimed(spline_weight_data_.dt_r3)
                                - Short(spline_weight_data_.dt_r3)

\* a window shorter than one spacing, and one that is a multiple of the other
C8_Witness ==
    /\ LastInitSpline
    /\ 0 < tend_s_ - t0_s_
    /\ tend_s_ - t0_s_ < spline_weight_data_.dt_r3
    /\ (tend_s_ - t0_s_) % spline_weight_data_.dt_so3 = 0
    /\ nr_knots_r3_ = SPLINE_N
    /\ nr_knots_so3_ > SPLINE_N

\* C2 as claimed: the solve runs only once gravity is initialized
C2_SolveNeedsGravity ==
    [][trajectory_'.optimize_calls > trajectory_.optimize_calls
          => gravity_initialized_]_vars

LastInitializeGravity == lastOp.op = "InitializeGravity"

\* |raw - cam| < 1 / 30 s, on the raw timestamp of the sample
WithinTolerance(raw_ms, cam_ms) ==
    Abs(raw_ms - cam_ms) * GravityTolDen < MsPerSec

\* C3 as claimed: a sweep over samples none of which lies within 1/30 s of
\* any camera timestamp leaves gravity uninitialized
C3_FarSamplesLeaveGravityUnset ==
    (/\ LastInitializeGravity
     /\ ~lastOp.was_initialized
     /\ \A a \in Range(lastOp.telemetry_data.accelerometer) :
           \A t \in Range(cam_timestamps_) :
              ~WithinTolerance(a.timestamp_ms, t))
        => ~gravity_initialized_

\* C4 as claimed: InitSpline on a dataset, then InitializeGravity with a
\* sample within 1/30 s of a camera timestamp of the dataset, initializes
\* gravity to the rotation of that view's pose, composed with the inverse
\* camera-to-IMU transform, applied to the sample plus the bias
C4_NearSampleSetsGravity ==
    (/\ LastInitializeGravity
     /\ prevOp = "InitSpline"
     /\ ~lastOp.was_initialized
     /\ \E a \in Range(lastOp.telemetry_data.accelerometer) :
           \E v \in Range(trajectory_.calib) :
              WithinTolerance(a.timestamp_ms, v.timestamp))
        => /\ gravity_initialized_
           /\ \E a \in Range(lastOp.telemetry_data.accelerometer) :
                 \E v \in Range(trajectory_.calib) :
                    /\ WithinTolerance(a.timestamp_ms, v.timestamp)
                    /\ gravity_init_ =
                         MatVec(SE3Mul(InitPose(v), SE3Inverse(T_i_c_init_)).R,
                                VecAdd(a.measurement, lastOp.accl_bias))

IsSortedAscending(s) == \A i \in 1..(Len(s) - 1) : s[i] <= s[i + 1]

\* the (camera timestamp, sample) pairs the sweep of the last call can stop
\* at: the timestamp has a registered pose and the sample passes the test of
\* line 302
MatchingPairs ==
    {p \in (1..Len(cam_timestamps_))
             \X (1..Len(lastOp.telemetry_data.accelerometer)) :
        /\ TimeCamId(cam_timestamps_[p[1]]) \in DOMAIN calib_init_poses_
        /\ GravityMatch(
              lastOp.telemetry_data.accelerometer[p[2]].timestamp_ms,
              cam_timestamps_[p[1]])}

\* the first pair in sweep order: camera timestamps outside, samples inside
FirstPair(pairs) ==
    CHOOSE p \in pairs :
        \A q \in pairs : p[1] < q[1] \/ (p[1] = q[1] /\ p[2] <= q[2])

GravityOfPair(p) ==
    MatVec(SE3Mul(calib_init_poses_[TimeCamId(cam_timestamps_[p[1]])],
                  SE3Inverse(T_i_c_init_)).R,
           VecAdd(lastOp.telemetry_data.accelerometer[p[2]].measurement,
                  lastOp.accl_bias))

\* C5: InitializeGravity sets gravity at most once.  The camera timestamps
\* are swept in ascending order and for each the samples in stream order; the
\* first matching pair gives gravity; a call on an initialized calibrator, and
\* a call without a matching pair, leave flag and value as they were.
C5_FirstMatchOnce ==
    LastInitializeGravity =>
        /\ IsSortedAscending(cam_timestamps_)
        /\ IF lastOp.was_initialized \/ MatchingPairs = {}
           THEN /\ gravity_initialized_ = lastOp.was_initialized
                /\ gravity_init_ = lastOp.was_gravity
           ELSE /\ gravity_initialized_
                /\ gravity_init_ = GravityOfPair(FirstPair(MatchingPairs))
        /\ trajectory_.g = gravity_init_

\* a first call with matching pairs at two camera timestamps and two samples,
\* not all giving the same value
C5_Witness ==
    /\ LastInitializeGravity
    /\ ~lastOp.was_initialized
    /\ gravity_initialized_
    /\ \E p, q \in MatchingPairs :
          /\ p[1] # q[1]
          /\ p[2] # q[2]
          /\ GravityOfPair(p) # GravityOfPair(q)
    /\ \E p \in MatchingPairs : GravityOfPair(p) # gravity_init_

\* the members InitSpline derives or fills
Derived ==
    <<cam_timestamps_, t0_s_, tend_s_, nr_knots_so3_, nr_knots_r3_,
      calib_corners_, calib_init_poses_, spline_init_poses_,
      accl_measurements, gyro_measurements, trajectory_>>

\* C6 as claimed: InitSpline on a reconstruction without views is refused:
\* the call ends (the process lives) with no window, no knot count and no
\* measurement derived or loaded
C6_EmptyDatasetRefused ==
    [][(lastOp'.op = "InitSpline" /\ lastOp'.calib_dataset = <<>>)
          => (~crashed' /\ UNCHANGED Derived)]_vars

EmptyStores ==
    [corners |-> EmptyMap, init |-> EmptyMap, spline |-> EmptyMap]

\* C9: ClearSpline then InitSpline on inputs X leaves the camera timestamp
\* list, the window, the knot counts and the corner, initial-pose,
\* accelerometer and gyroscope stores as InitSpline on X leaves them on a new
\* calibrator (one whose containers are empty), whatever came before.  With
\* views in X the right-hand sides depend on X alone; without views both calls
\* read out of bounds, and the comparison is for the same outcome of the read.
C9_ClearThenInitIsFresh ==
    (LastInitSpline /\ prevOp = "ClearSpline") =>
        LET cam == CamTimestampsAfter(<<>>, lastOp.calib_dataset)
            w == Window(cam, lastOp.ub.stale_time)
            stores == IngestViews(EmptyStores, lastOp.calib_dataset, 1, w,
                                  lastOp.T_i_c_init)
            fresh == [store |-> EmptyMap, handed |-> <<>>]
        IN /\ cam_timestamps_ = cam
           /\ t0_s_ = w.t0
           /\ tend_s_ = w.tend
           /\ nr_knots_so3_ =
                KnotCount(ToNs(w.t0), ToNs(w.tend),
                          ToNs(lastOp.spline_weight_data.dt_so3))
           /\ nr_knots_r3_ =
                KnotCount(ToNs(w.t0), ToNs(w.tend),
                          ToNs(lastOp.spline_weight_data.dt_r3))
           /\ calib_corners_ = stores.corners
           /\ calib_init_poses_ = stores.init
           /\ spline_init_poses_ = stores.spline
           /\ accl_measurements =
                IngestInertial(fresh, lastOp.telemetry_data.accelerometer, 1,
                               lastOp.time_offset_imu_to_cam,
                               lastOp.accl_bias, w).store
           /\ gyro_measurements =
                IngestInertial(fresh, lastOp.telemetry_data.gyroscope, 1,
                               lastOp.time_offset_imu_to_cam,
                               lastOp.gyro_bias, w).store

\* a second run after ClearSpline that stores less than the first run, which
\* had gravity initialized and was solved, stored
C9_Witness ==
    /\ LastInitSpline
    /\ prevOp = "ClearSpline"
    /\ gravity_initialized_
    /\ runs = 2
    /\ lastOp.calib_dataset # <<>>
    /\ calib_corners_ = EmptyMap
    /\ accl_measurements = EmptyMap

\* C10 as claimed: ClearSpline leaves gravity uninitialized
C10_ClearUnsetsGravity ==
    lastOp.op = "ClearSpline" => ~gravity_initialized_

\* a / b as a fraction record equals 1 / (fps * rows)
IsLineGuess(delay, fps, rows) == delay.num * fps * rows = delay.den

\* the reconstruction of the last InitSpline call (the trajectory keeps it)
\* has views, so the call read no view out of bounds
RunHasViews == runs > 0 /\ ~crashed /\ trajectory_.calib # <<>>

\* the trajectory has been handed a run (init_times) since it was cleared
TrajectoryInitialized == trajectory_.dt_so3_ns > 0

\* C11: with line-delay calibration disabled, once InitSpline has run, with any
\* frame rate and image height, the calibrator's initial line delay is
\* exactly 0 and stays 0 through Optimize, ClearSpline and later runs, and 0
\* is what every run hands to the trajectory; with it enabled, after
\* InitSpline on a reconstruction with views and until ClearSpline, the delay
\* held and handed over is (1 / frame rate) * (1 / image rows of the first
\* view).
C11_LineDelay ==
    /\ (~calibrate_cam_line_delay_ /\ runs > 0) =>
          inital_cam_line_delay_s_ = ZeroDelay
    /\ (~calibrate_cam_line_delay_ /\ TrajectoryInitialized) =>
          trajectory_.rs_line_delay = ZeroDelay
    /\ (calibrate_cam_line_delay_ /\ RunHasViews) =>
          /\ IsLineGuess(inital_cam_line_delay_s_,
                         spline_weight_data_.cam_fps,
                         trajectory_.calib[1].image_height)
          /\ trajectory_.rs_line_delay = inital_cam_line_delay_s_

\* calibration disabled: a second run at 60 frames per second over views
\* 1080 and 480 rows high, solved
C11_Witness ==
    /\ ~calibrate_cam_line_delay_
    /\ lastOp.op = "Optimize"
    /\ runs = 2
    /\ spline_weight_data_.cam_fps = 60
    /\ Len(trajectory_.calib) = 2
    /\ trajectory_.calib[1].image_height = 1080
    /\ trajectory_.calib[2].image_height = 480
    /\ inital_cam_line_delay_s_ = ZeroDelay
    /\ trajectory_.rs_line_delay = ZeroDelay

LastExport == lastOp.op = "ToTheiaReconDataset"

\* the views the last export added to the container it was given
AddedViews ==
    SubSeq(lastOp.output_recon, Len(lastOp.given) + 1, Len(lastOp.output_recon))

\* the members of the calibrator, the trajectory included
CalibratorState ==
    <<calibrate_cam_line_delay_, spline_weight_data_, T_i_c_init_,
      cam_timestamps_, inital_cam_line_delay_s_, t0_s_, tend_s_,
      nr_knots_so3_, nr_knots_r3_, calib_corners_, calib_init_poses_,
      spline_init_poses_, accl_measurements, gyro_measurements,
      gravity_initialized_, gravity_init_, trajectory_>>

\* C12: ToTheiaReconDataset keeps what the container held and adds one view
\* for every entry of the camera timestamp list, which in a run started on a
\* new or cleared calibrator is one view per frame of the run's
\* reconstruction, the frames the window kept out of the stores included;
\* each added view is marked estimated and carries the trajectory's pose at
\* its timestamp; the call changes no member of the calibrator.
C12_ExportOnePerFrame ==
    /\ [](LastExport =>
            /\ SubSeq(lastOp.output_recon, 1, Len(lastOp.given)) = lastOp.given
            /\ Len(AddedViews) = Len(cam_timestamps_)
            /\ \A i \in 1..Len(AddedViews) :
                  /\ AddedViews[i].timestamp = ToNs(cam_timestamps_[i])
                  /\ AddedViews[i].pose_at = AddedViews[i].timestamp
                  /\ AddedViews[i].estimated
            /\ TrajectoryInitialized =>
                  /\ Len(AddedViews) = Len(trajectory_.calib)
                  /\ cam_timestamps_ =
                        StdSort(ViewTimestamps(trajectory_.calib)))
    /\ [][lastOp'.op = "ToTheiaReconDataset" => UNCHANGED CalibratorState]_vars

\* an export into a container that held a view, of a run of two frames of
\* which the later one is in no store
C12_Witness ==
    /\ LastExport
    /\ lastOp.given # <<>>
    /\ Len(cam_timestamps_) = 2
    /\ TimeCamId(cam_timestamps_[1]) \in DOMAIN calib_corners_
    /\ TimeCamId(cam_timestamps_[2]) \notin DOMAIN calib_corners_
    /\ Len(lastOp.output_recon) = 3
    /\ lastOp.output_recon[3].timestamp = ToNs(tend_s_)

\* a step that is an InitSpline call, returned, on a calibrator that has run
\* before: the unprimed window, spacings and knot counts are the earlier
\* run's (ClearSpline leaves them), the primed ones this run's
NextRunStep ==
    /\ runs > 0
    /\ runs' = runs + 1
    /\ lastOp'.op = "InitSpline"
    /\ lastOp'.calib_dataset # <<>>

\* the last call was InitSpline on views that span a window
SpansWindow == LastInitSpline /\ lastOp.calib_dataset # <<>> /\ t0_s_ < tend_s_

C14_ExportInsideWindow ==
    (LastExport /\ t0_s_ < tend_s_) =>
        \A i \in 1..Len(AddedViews) : InWindowNs(AddedViews[i].pose_at)


\* the last sample of the stream, in stream order, with corrected time t
LastAt(stream, t) ==
    stream[SetMax({i \in 1..Len(stream) : Corrected(stream[i]) = t})]

\* the store holds the corrected times of the stream that lie in the window,
\* each with the value of the last sample at that time plus the bias
StoreHoldsLast(store, stream, bias) ==
    /\ DOMAIN store =
         {Corrected(stream[i]) : i \in 1..Len(stream)} \cap
         {t \in t0_s_..tend_s_ : HalfOpen(t)}
    /\ \A t \in DOMAIN store :
          store[t] = VecAdd(LastAt(stream, t).measurement, bias)

\* C15: after InitSpline on an empty calibrator each store maps the corrected
\* times of its stream that lie in the window to measurement plus bias, the
\* last sample in stream order winning a shared time, and as many measurements
\* were handed to the trajectory as the store has entries. The code hands over
\* every in-window sample (lines 124-126, 139-141) and overwrites the store
\* entry of a shared time (lines 127, 142), so the count part is violated.
C15_HandedEqualsStored ==
    (LastInitSpline /\ WasEmpty) =>
        /\ StoreHoldsLast(accl_measurements,
                          lastOp.telemetry_data.accelerometer, lastOp.accl_bias)
        /\ StoreHoldsLast(gyro_measurements,
                          lastOp.telemetry_data.gyroscope, lastOp.gyro_bias)
        /\ Len(lastOp.handed.accel) = Cardinality(DOMAIN accl_measurements)
        /\ Len(lastOp.handed.gyro) = Cardinality(DOMAIN gyro_measurements)


\* what Optimize has no statement to change: the measurement stores, the
\* camera timestamp list, the window, the knot counts and the gravity flag
OptimizeFrame ==
    <<calib_corners_, calib_init_poses_, spline_init_poses_,
      accl_measurements, gyro_measurements, cam_timestamps_,
      t0_s_, tend_s_, nr_knots_so3_, nr_knots_r3_, gravity_initialized_>>

\* what initAll and init_times gave the trajectory (lines 69-71, 105)
TrajectoryKnots ==
    <<trajectory_.nr_knots_so3, trajectory_.nr_knots_r3,
      trajectory_.init_poses, trajectory_.dt_so3_ns, trajectory_.dt_r3_ns,
      trajectory_.start_t_ns>>

\* C16: every Optimize call, also one that follows another, runs the solve on
\* the trajectory as it is (one more solve, the knots not initialized again),
\* returns two diagnostics, the mean reprojection error first and the mean
\* rolling-shutter reprojection error second, each over every entry of the
\* corner store, and leaves the stores, the camera timestamp list, the window,
\* the knot counts and the gravity flag as they were.
C16_OptimizeRepeatable ==
    [][lastOp'.op = "Optimize" =>
          /\ trajectory_'.optimize_calls = trajectory_.optimize_calls + 1
          /\ UNCHANGED TrajectoryKnots
          /\ Len(lastOp'.returned) = 2
          /\ lastOp'.returned[1] =
                [metric |-> "meanReprojection", over |-> DOMAIN calib_corners_]
          /\ lastOp'.returned[2] =
                [metric |-> "meanRSReprojection", over |-> DOMAIN calib_corners_]
          /\ UNCHANGED OptimizeFrame]_vars

\* a second Optimize in a row on a run with stored corners, inertial
\* measurements and knots
C16_Witness ==
    /\ lastOp.op = "Optimize"
    /\ prevOp = "Optimize"
    /\ trajectory_.optimize_calls = 2
    /\ trajectory_.nr_knots_so3 > SPLINE_N
    /\ calib_corners_ # EmptyMap
    /\ accl_measurements # EmptyMap
    /\ lastOp.returned[1].over = DOMAIN calib_corners_


\* C17: after every InitSpline call on a reconstruction with views, whatever
\* the operations before it, the camera timestamp list is sorted ascending and
\* holds one entry per frame of that reconstruction. InitSpline appends to the
\* member without emptying it (lines 37-39), so a call that does not follow
\* ClearSpline keeps the timestamps of the earlier run and the formula is
\* violated.
C17_TimestampsOfThisRun ==
    (LastInitSpline /\ lastOp.calib_dataset # <<>>) =>
        /\ IsSortedAscending(cam_timestamps_)
        /\ cam_timestamps_ = StdSort(ViewTimestamps(lastOp.calib_dataset))

============================================================================
